---- MODULE Spec2Model ----
(***************************************************************************)
(* Model of the "dream" gradient-ascent image loop and of its objective    *)
(* functions in optimization_tutorial.ipynb.                               *)
(*                                                                         *)
(* Tensor elements are exact rationals <<num, den>> (den > 0, reduced);    *)
(* the float value NaN is <<0, 0>>.  The forward model (a pretrained       *)
(* ResNet) is an external collaborator: it is modelled by the gradient it  *)
(* leaves on the image, drawn from a small family of objectives.           *)
(* The spatial scale is reduced: Resize(256) and shift = 20 become Size    *)
(* and shift below, keeping the program's relation 2 * shift < Size.       *)
(***************************************************************************)
EXTENDS Integers, Sequences, FiniteSets, TLC

\* ------------------------------------------------------- scaled constants
\* maximum random offset of random_shift: 20 in the notebook, scaled to 1
shift == 1
\* target of transforms.Resize: 256 in the notebook, scaled with shift so
\* that a shifted window is never empty (2 * shift < Size)
Size == 2 * shift + 1

\* ---------------------------------------------------------------- bounds
\* the largest source image edge is Size + MaxDimExtra
MaxDimExtra == 1
\* largest n_iter passed to dream
MaxIter == 2

\* number of colour channels of an RGB image
NChan == 3
Chans == 1..NChan

\* ------------------------------------------------------- float arithmetic
NaN == <<0, 0>>
IsNaN(a) == a[2] = 0

AbsI(n) == IF n < 0 THEN -n ELSE n

RECURSIVE GCD(_, _)
GCD(a, b) == IF b = 0 THEN a ELSE GCD(b, a % b)

LCM(a, b) == (a \div GCD(a, b)) * b

\* the reduced fraction n/d, d # 0
Rat(n, d) ==
  LET g == GCD(AbsI(n), AbsI(d))
      s == IF d < 0 THEN -1 ELSE 1
  IN  <<s * (n \div g), s * (d \div g)>>

Zero == <<0, 1>>
One == <<1, 1>>

RNeg(a) == IF IsNaN(a) THEN NaN ELSE <<-a[1], a[2]>>

RAbs(a) == IF IsNaN(a) THEN NaN ELSE <<AbsI(a[1]), a[2]>>

RAdd(a, b) ==
  IF IsNaN(a) \/ IsNaN(b) THEN NaN
  ELSE LET l == LCM(a[2], b[2])
       IN  Rat(a[1] * (l \div a[2]) + b[1] * (l \div b[2]), l)

RSub(a, b) == RAdd(a, RNeg(b))

RMul(a, b) ==
  IF IsNaN(a) \/ IsNaN(b) THEN NaN
  ELSE LET g1 == GCD(AbsI(a[1]), b[2])
           g2 == GCD(AbsI(b[1]), a[2])
       IN  Rat((a[1] \div g1) * (b[1] \div g2), (a[2] \div g2) * (b[2] \div g1))

\* IEEE division: 0/0 is NaN.  x/0 with x # 0 does not arise in dream
\* (grad_mean is 0 only when every gradient element is 0).
RDiv(a, b) ==
  IF IsNaN(a) \/ IsNaN(b) THEN NaN
  ELSE IF b[1] = 0 /\ a[1] = 0 THEN NaN
  ELSE RMul(a, Rat(b[2], b[1]))

\* a < b; every comparison with NaN is false
RLess(a, b) ==
  IF IsNaN(a) \/ IsNaN(b) THEN FALSE
  ELSE LET l == LCM(a[2], b[2])
       IN  a[1] * (l \div a[2]) < b[1] * (l \div b[2])

RLeq(a, b) == a = b \/ RLess(a, b)

\* ------------------------------------------------ normalization constants
mean == <<Rat(485, 1000), Rat(456, 1000), Rat(406, 1000)>>
std == <<Rat(229, 1000), Rat(224, 1000), Rat(225, 1000)>>

\* a CxHxW tensor: [h, w, v], v indexed by <<c, i, j>>
Idx(h, w) == Chans \X (1..h) \X (1..w)

Tensor(h, w, f(_)) == [h |-> h, w |-> w, v |-> [p \in Idx(h, w) |-> f(p)]]

\* transforms.Normalize(m, s): t[c] <- (t[c] - m[c]) / s[c]
Normalize(m, s, t) == Tensor(t.h, t.w, LAMBDA p : RDiv(RSub(t.v[p], m[p[1]]), s[p[1]]))

normalize(t) == Normalize(mean, std, t)

\* unnormalize with the mean negated but not divided by std
unnormalizeMeanOnly(t) ==
  Normalize([c \in Chans |-> RNeg(mean[c])],
            [c \in Chans |-> RDiv(One, std[c])], t)

unnormalize(t) ==
  Normalize([c \in Chans |-> RDiv(RNeg(mean[c]), std[c])],
            [c \in Chans |-> RDiv(One, std[c])], t)

\* transforms.Resize(Size) on a PIL image [h, w, px], px indexed <<i, j, c>>:
\* the smaller edge becomes Size, the other edge int(Size * long / short);
\* pixels are resampled (nearest source pixel stands for the interpolation).
ResizeDims(h, w) ==
  IF (w <= h /\ w = Size) \/ (h <= w /\ h = Size) THEN <<h, w>>
  ELSE IF w < h THEN <<(Size * h) \div w, Size>>
  ELSE <<Size, (Size * w) \div h>>

Resize(im) ==
  LET d == ResizeDims(im.h, im.w)
  IN  [h |-> d[1], w |-> d[2],
       px |-> [q \in (1..d[1]) \X (1..d[2]) \X Chans |->
                 im.px[<<(((q[1] - 1) * im.h) \div d[1]) + 1,
                         (((q[2] - 1) * im.w) \div d[2]) + 1, q[3]>>]]]

\* transforms.ToTensor: HxWxC bytes -> CxHxW floats in [0, 1]
ToTensor(im) == Tensor(im.h, im.w, LAMBDA p : Rat(im.px[<<p[2], p[3], p[1]>>], 255))

img_transform(im) == normalize(ToTensor(Resize(im)))


\* ------------------------------------------------------------ tensor ops
\* the absent tensor (data.grad is None, no result yet)
NoTensor == Tensor(0, 0, LAMBDA p : Zero)

HasNaN(t) == \E p \in DOMAIN t.v : IsNaN(t.v[p])

\* f(1) + ... + f(n)
RECURSIVE SumTo(_, _)
SumTo(f(_), n) == IF n = 0 THEN Zero ELSE RAdd(f(n), SumTo(f, n - 1))

\* the sum of all elements of t
SumAll(t) ==
  SumTo(LAMBDA c : SumTo(LAMBDA i : SumTo(LAMBDA j : t.v[<<c, i, j>>], t.w), t.h), NChan)

\* t.abs().mean()
AbsMean(t) ==
  RDiv(SumAll(Tensor(t.h, t.w, LAMBDA p : RAbs(t.v[p]))), Rat(NChan * t.h * t.w, 1))

\* torch.max(a, b) / torch.min(a, b) of two elements.  With a NaN operand
\* the result depends on the torch build: current builds propagate the NaN,
\* the legacy kernels compute (a > b ? a : b) and (a < b ? a : b).
TorchMax(a, b, build) ==
  IF build = "propagate" /\ (IsNaN(a) \/ IsNaN(b)) THEN NaN
  ELSE IF RLess(b, a) THEN a ELSE b

TorchMin(a, b, build) ==
  IF build = "propagate" /\ (IsNaN(a) \/ IsNaN(b)) THEN NaN
  ELSE IF RLess(a, b) THEN a ELSE b

\* per-channel bounds of the normalized image space
clamp_min == [c \in Chans |-> RDiv(RNeg(mean[c]), std[c])]
clamp_max == [c \in Chans |-> RDiv(RSub(One, mean[c]), std[c])]

\* data = torch.max(data, clamp_min); data = torch.min(data, clamp_max)
ClampToBounds(t, build) ==
  Tensor(t.h, t.w,
         LAMBDA p : TorchMin(TorchMax(t.v[p], clamp_min[p[1]], build),
                             clamp_max[p[1]], build))

\* Tensor.clamp(0, 1) of one element; NaN stays NaN
Clamp01(a) ==
  IF RLess(a, Zero) THEN Zero ELSE IF RLess(One, a) THEN One ELSE a

\* FinalImage with the axes permuted as (2, 1, 0): a WxHxC image
FinalImageTransposed(t) ==
  LET u == unnormalize(t)
  IN  [h |-> t.w, w |-> t.h,
       v |-> [q \in (1..t.w) \X (1..t.h) \X Chans |->
                Clamp01(u.v[<<q[3], q[2], q[1]>>])]]

\* unnormalize(data).clamp(0, 1).permute(1, 2, 0): an HxWxC image
FinalImage(t) ==
  LET u == unnormalize(t)
  IN  [h |-> t.h, w |-> t.w,
       v |-> [q \in (1..t.h) \X (1..t.w) \X Chans |->
                Clamp01(u.v[<<q[3], q[1], q[2]>>])]]

NoPil == [h |-> 0, w |-> 0, px |-> [q \in {} \X {} \X Chans |-> 0]]

NoImage == [h |-> 0, w |-> 0, v |-> [q \in {} \X {} \X Chans |-> Zero]]

\* ------------------------------------------------------------ random_shift
\* data[:, a:-b, c:-d] as the window of rows r0..r1 and columns c0..c1
Window(t, a, b, c, d) ==
  [r0 |-> a + 1, r1 |-> IF t.h - b < 0 THEN 0 ELSE t.h - b,
   c0 |-> c + 1, c1 |-> IF t.w - d < 0 THEN 0 ELSE t.w - d]

FullWindow(t) == [r0 |-> 1, r1 |-> t.h, c0 |-> 1, c1 |-> t.w]

NoWindow == [r0 |-> 1, r1 |-> 0, c0 |-> 1, c1 |-> 0]

InWindow(x, p) == x.r0 <= p[2] /\ p[2] <= x.r1 /\ x.c0 <= p[3] /\ p[3] <= x.c1

\* ----------------------------------------------------- objective functions
\* The gradient that output = model(x); grad_fn(output) leaves on one element
\* of the image inside the window x, for each modelled objective:
\*   "zero_stage"  self-amplification of a stage whose activations are all 0
\*   "abs_sum"     sum of |x|: gradient sign(x)
\*   "sum"         sum of x: gradient 1
\*   "sum2"        2 * sum of x: gradient 2
GradFns == {"zero_stage", "abs_sum", "sum", "sum2"}

ElementGrad(gf, a) ==
  CASE gf = "zero_stage" -> Zero
    [] gf = "abs_sum" -> IF RLess(Zero, a) THEN One
                         ELSE IF RLess(a, Zero) THEN RNeg(One) ELSE Zero
    [] gf = "sum" -> One
    [] gf = "sum2" -> Rat(2, 1)

\* backward pass: the gradient with respect to data; elements outside the
\* window x took no part in the forward pass and receive 0
Backward(gf, t, x) ==
  Tensor(t.h, t.w, LAMBDA p : IF InWindow(x, p) THEN ElementGrad(gf, t.v[p]) ELSE Zero)

\* autograd accumulates into .grad
Accumulate(old, g) ==
  IF old = NoTensor THEN g
  ELSE Tensor(g.h, g.w, LAMBDA p : RAdd(old.v[p], g.v[p]))

\* SgdStep without the division by grad_mean
SgdStepUnnormalized(t, g, lr) ==
  Tensor(t.h, t.w, LAMBDA p : RAdd(t.v[p], RMul(g.v[p], lr)))

\* data += data.grad * learning_rate / grad_mean
SgdStep(t, g, lr) ==
  LET grad_mean == AbsMean(g)
  IN  Tensor(t.h, t.w, LAMBDA p : RAdd(t.v[p], RDiv(RMul(g.v[p], lr), grad_mean)))

\* ------------------------------------------------------------------ inputs
Levels == <<0, 51, 255>>

Patterns == {"gray", "mixed"}

Pixel(pat, i, j, c) ==
  IF pat = "gray" THEN Levels[2] ELSE Levels[((i + 2 * j + c) % 3) + 1]

Image(pat, h, w) ==
  [h |-> h, w |-> w,
   px |-> [q \in (1..h) \X (1..w) \X Chans |-> Pixel(pat, q[1], q[2], q[3])]]

Dims == {Size - 1, Size, Size + MaxDimExtra}

Images == {Image(pat, h, w) : pat \in Patterns, h \in Dims, w \in Dims}

Rates == {Rat(-1, 50), Zero, Rat(1, 50)}

Iters == (-1)..MaxIter

\* ------------------------------------------------------------------- state
VARIABLES img, do_random_shifts, n_iter, grad_fn, learning_rate,
          pc, iter, processed_image, data, alias, requires_grad, grad, x,
          fwd, gcalls, result, err, build,
          ref, mparam,
          feat, guide, sel, inj, gpc, output, seed, seed_stage,
          setup, req, opt_params, weights, pgrad, training, opt_lr, last_epoch,
          num_epochs, tpc, epoch, phase, batch, running_corrects, corrects,
          step_dir, best_acc, best_model_wts, entry_wts, log,
          heap, ograd, obuf, params, trained, cur, oepoch, sample, sgrad, opc, steps,
          vpc, model_training, was_training, images_so_far, num_images,
          val_size, vi, vj, shown

vars == <<img, do_random_shifts, n_iter, grad_fn, learning_rate,
          pc, iter, processed_image, data, alias, requires_grad, grad, x,
          fwd, gcalls, result, err, build,
          ref, mparam, feat, guide, sel, inj, gpc, output, seed, seed_stage,
          setup, req, opt_params, weights, pgrad, training, opt_lr, last_epoch,
          num_epochs, tpc, epoch, phase, batch, running_corrects, corrects,
          step_dir, best_acc, best_model_wts, entry_wts, log,
          heap, ograd, obuf, params, trained, cur, oepoch, sample, sgrad, opc, steps,
          vpc, model_training, was_training, images_so_far, num_images,
          val_size, vi, vj, shown>>

\* the variables of dream's model
dvars == <<img, do_random_shifts, n_iter, grad_fn, learning_rate,
           pc, iter, processed_image, data, alias, requires_grad, grad, x,
           fwd, gcalls, result, err, build, ref, mparam>>
\* the variables of train_model's model
tvars == <<setup, req, opt_params, weights, pgrad, training, opt_lr, last_epoch,
           num_epochs, tpc, epoch, phase, batch, running_corrects, corrects,
           step_dir, best_acc, best_model_wts, entry_wts, log>>

\* the variables of my_grad_fn's model
gvars == <<feat, guide, sel, inj, gpc, output, seed, seed_stage>>
\* the remembered earlier dream call
session == <<ref>>

args == <<n_iter, grad_fn, learning_rate>>
globals == <<img, do_random_shifts, mparam>>

\* ------------------------------------------- train_model (transfer learning)
\* The network is two groups of parameters: "body", every parameter other
\* than those of the final layer, and "fc", the final fully connected layer.
\* A group's weights are one number.
Params == {"body", "fc"}

\* optim.SGD(..., lr=0.001, ...)
base_lr == Rat(1, 1000)
\* lr_scheduler.StepLR(optimizer, step_size=7, gamma=0.1)
step_size == 7
gamma == Rat(1, 10)

\* batch_size of the data loaders (4 in the notebook) and the number of
\* batches len(dataloaders[phase]) of each phase, scaled
batch_size == 2
TrainBatches == 4
ValBatches == 1

NBatches(ph) == IF ph = "train" THEN TrainBatches ELSE ValBatches

\* dataset_sizes[phase]
dataset_sizes(ph) == NBatches(ph) * batch_size

\* num_epochs is drawn from 0..MaxEpochs
MaxEpochs == 2

\* the step directions a backward pass followed by SGD with momentum can
\* take on a group of parameters (the momentum buffer is part of the choice)
Grads == {1, 2}

\* finetuning: every parameter requires grad, the optimizer holds them all
model_ft == [req |-> [p \in Params |-> TRUE], opt |-> Params]

\* the fixed feature extractor with the body left trainable
model_conv_unfrozen == [req |-> [p \in Params |-> TRUE], opt |-> Params]

\* the fixed feature extractor: every parameter frozen, then a new fc layer
\* (requires_grad=True by default); the optimizer holds model_conv.fc only
model_conv == [req |-> [p \in Params |-> p = "fc"], opt |-> {"fc"}]

\* models.resnet18(pretrained=True) with fc replaced by a new nn.Linear
InitialWeights == [p \in Params |-> IF p = "fc" THEN Zero ELSE One]

NoWeights == [p \in Params |-> Zero]
NoGrads == [p \in Params |-> 0]

TrainOff ==
  /\ setup = "none" /\ req = [p \in Params |-> FALSE] /\ opt_params = {}
  /\ weights = NoWeights /\ pgrad = NoGrads /\ training = FALSE
  /\ opt_lr = Zero /\ last_epoch = 0
  /\ num_epochs = 0 /\ tpc = "off" /\ epoch = 0 /\ phase = "none" /\ batch = 0
  /\ running_corrects = 0 /\ corrects = 0 /\ step_dir = 0
  /\ best_acc = Zero /\ best_model_wts = NoWeights
  /\ entry_wts = NoWeights /\ log = <<>>

\* the variables of the optimizer comparison
ovars == <<heap, ograd, obuf, params, trained, cur, oepoch, sample, sgrad, opc, steps>>

\* --------------------------------------- comparing optimizers (optim cells)
\* Tensors are objects of a heap, each summarised by one number. weight and
\* bias are objects 1 and 2; every optimizer has two more slots.
Optimizers == {"sgd", "sgdmom", "rms", "adam"}

WeightId == 1
BiasId == 2
ObjIds == 1..10

\* the slots for the parameter tensors of an optimizer
Slot(o) ==
  CASE o = "sgd" -> <<3, 4>>
    [] o = "sgdmom" -> <<5, 6>>
    [] o = "rms" -> <<7, 8>>
    [] o = "adam" -> <<9, 10>>

\* t.data.requires_grad_(): the same storage under a new name
CloneShared(t, fresh) == t

\* t.data.clone().requires_grad_(): a new tensor object with t's values
Clone(t, fresh) == fresh

\* lr of each optimizer
OptLr(o) == IF o = "adam" THEN Rat(1, 1000) ELSE Rat(1, 100)

\* optim.SGD(params_sgdmom, lr=0.01, momentum=0.5)
momentum == Rat(1, 2)

\* n_epochs (100 in the notebook) and the size of the dataset (100), scaled
n_epochs == 1
NSamples == 2

\* torch.randn: the values weight and bias can start with
RandN == {Rat(-1, 2), Rat(3, 4)}

\* the gradients of one sample's loss with respect to weight and bias
SampleGrads == {[w |-> Rat(1, 1), b |-> Rat(-1, 1)], [w |-> Rat(-2, 1), b |-> Rat(1, 1)]}

Sign(a) == IF RLess(Zero, a) THEN One ELSE IF RLess(a, Zero) THEN RNeg(One) ELSE Zero

\* the step optimizer o takes on a parameter with gradient g and momentum
\* buffer m (already updated). RMSprop and Adam divide by the root of a
\* running average of g * g: their step is taken in its first-step form,
\* 10 * lr * sign(g) and lr * sign(g)
StepOf(o, g, m) ==
  CASE o = "sgd" -> RMul(OptLr(o), g)
    [] o = "sgdmom" -> RMul(OptLr(o), m)
    [] o = "rms" -> RMul(RMul(OptLr(o), Rat(10, 1)), Sign(g))
    [] o = "adam" -> RMul(OptLr(o), Sign(g))

NoHeap == [i \in ObjIds |-> Zero]
NoSampleGrad == [w |-> Zero, b |-> Zero]

OptimOff ==
  /\ heap = NoHeap /\ ograd = NoHeap /\ obuf = NoHeap
  /\ params = [o \in Optimizers |-> <<0, 0>>]
  /\ trained = {} /\ cur = "none" /\ oepoch = 0 /\ sample = 0
  /\ sgrad = NoSampleGrad /\ opc = "off" /\ steps = 0

\* the variables of visualize_model's model
vvars == <<vpc, model_training, was_training, images_so_far, num_images,
           val_size, vi, vj, shown>>

VizOff ==
  /\ vpc = "off" /\ model_training = FALSE /\ was_training = FALSE
  /\ images_so_far = 0 /\ num_images = 0 /\ val_size = 0
  /\ vi = 0 /\ vj = 0 /\ shown = 0

\* model = resnet50(pretrained=True) with requires_grad left on
model_parameters_trainable == [val |-> One, req |-> TRUE, grad |-> Zero]

\* model = resnet50(pretrained=True); model.eval(); for parameter in
\* model.parameters(): parameter.requires_grad_(False). The parameters are
\* summarised by one number, their requires_grad flag and their .grad
model_parameters == [val |-> One, req |-> FALSE, grad |-> Zero]

\* the gradient of the objective with respect to the parameters
ParamGrad(gf, t, w) == SumAll(Backward(gf, t, w))

\* no dream call is remembered
NoRun == [set |-> FALSE, img |-> NoPil, n_iter |-> 0, grad_fn |-> "zero_stage",
          learning_rate |-> Zero, result |-> NoImage, between |-> FALSE]

\* a call with these arguments repeats the remembered call r, without
\* random shifts
Repeats(r, im, n, gf, lr, sh) ==
  /\ r.set /\ ~sh
  /\ r.img = im /\ r.n_iter = n /\ r.grad_fn = gf /\ r.learning_rate = lr

\* the notebook after its definition cells: an image is loaded, no call yet
\* no dream call is running
DreamIdle ==
  /\ n_iter = 0 /\ grad_fn = "zero_stage" /\ learning_rate = Zero
  /\ pc = "idle" /\ iter = 0
  /\ processed_image = NoTensor /\ data = NoTensor /\ alias = FALSE
  /\ requires_grad = FALSE /\ grad = NoTensor /\ x = NoWindow
  /\ fwd = 0 /\ gcalls = 0 /\ result = NoImage /\ err = "none"
  /\ build = "unset"
  /\ ref = NoRun
  /\ mparam = model_parameters

GuideOff ==
  /\ feat = <<>> /\ guide = <<>> /\ sel = <<>> /\ inj = <<>> /\ gpc = "off"
  /\ output = <<>> /\ seed = <<>> /\ seed_stage = "none"

InitWith(IS) ==
  /\ img \in IS
  /\ do_random_shifts \in BOOLEAN
  /\ DreamIdle
  /\ GuideOff
  /\ TrainOff
  /\ OptimOff
  /\ VizOff

Init == InitWith(Images)

\* dream(img, n_iter, grad_fn, learning_rate) up to the loop: no argument is
\* checked; the image is preprocessed and data is the same tensor object
CallWith(NS, GS, LS) ==
  /\ pc = "idle"
  /\ \E n \in NS, gf \in GS, lr \in LS :
       /\ n_iter' = n /\ grad_fn' = gf /\ learning_rate' = lr
       /\ ref' = [ref EXCEPT !.between =
                    @ \/ (ref.set /\ ~Repeats(ref, img, n, gf, lr, do_random_shifts))]
  /\ processed_image' = img_transform(img)
  /\ data' = processed_image'
  /\ alias' = TRUE
  /\ requires_grad' = FALSE /\ grad' = NoTensor /\ x' = NoWindow
  /\ iter' = 0 /\ fwd' = 0 /\ gcalls' = 0
  /\ result' = NoImage /\ err' = "none"
  /\ pc' = "loop"
  /\ UNCHANGED <<vvars, ovars, tvars, gvars, globals, build>>

Call == CallWith(Iters, GradFns, Rates)

\* RequiresGrad for a loop over range(n_iter + 1)
RequiresGradInclusive ==
  /\ pc = "loop" /\ iter <= n_iter
  /\ requires_grad' = TRUE
  /\ pc' = "shift"
  /\ UNCHANGED <<vvars, ovars, tvars, gvars, session, globals, args, iter, processed_image, data, alias, grad, x,
                 fwd, gcalls, result, err, build>>

\* RequiresGrad for a loop over range(abs(n_iter))
RequiresGradAbs ==
  /\ pc = "loop" /\ iter < AbsI(n_iter)
  /\ requires_grad' = TRUE
  /\ pc' = "shift"
  /\ UNCHANGED <<vvars, ovars, tvars, gvars, session, globals, args, iter, processed_image, data, alias, grad, x,
                 fwd, gcalls, result, err, build>>

\* RequiresGrad with gradient tracking left to a later statement
RequiresGradDeferred ==
  /\ pc = "loop" /\ iter < n_iter
  /\ pc' = "shift"
  /\ UNCHANGED <<vvars, ovars, tvars, gvars, session, globals, args, iter, processed_image, data, alias,
                 requires_grad, grad, x, fwd, gcalls, result, err, build>>

\* for i in range(n_iter): ... data.requires_grad_()
RequiresGrad ==
  /\ pc = "loop" /\ iter < n_iter
  /\ requires_grad' = TRUE
  /\ pc' = "shift"
  /\ UNCHANGED <<vvars, ovars, tvars, gvars, session, globals, args, iter, processed_image, data, alias, grad, x,
                 fwd, gcalls, result, err, build>>

\* Shift without the test of do_random_shifts
ShiftAlways ==
  /\ pc = "shift"
  /\ \E a \in 0..shift, b \in 1..shift, c \in 0..shift, d \in 1..shift :
       x' = Window(data, a, b, c, d)
  /\ pc' = "forward"
  /\ UNCHANGED <<vvars, ovars, tvars, gvars, session, globals, args, iter, processed_image, data, alias,
                 requires_grad, grad, fwd, gcalls, result, err, build>>

\* x = data; if do_random_shifts: x = random_shift(data)
Shift ==
  /\ pc = "shift"
  /\ IF do_random_shifts
     THEN \E a \in 0..shift, b \in 1..shift, c \in 0..shift, d \in 1..shift :
            x' = Window(data, a, b, c, d)
     ELSE x' = FullWindow(data)
  /\ pc' = "forward"
  /\ UNCHANGED <<vvars, ovars, tvars, gvars, session, globals, args, iter, processed_image, data, alias,
                 requires_grad, grad, fwd, gcalls, result, err, build>>

\* output = model(x)
Forward ==
  /\ pc = "forward"
  /\ fwd' = fwd + 1
  /\ pc' = "grad_fn"
  /\ UNCHANGED <<vvars, ovars, tvars, gvars, session, globals, args, iter, processed_image, data, alias,
                 requires_grad, grad, x, gcalls, result, err, build>>

\* ForwardRaises with the exception caught and the iteration skipped
ForwardRaisesSkipped ==
  /\ pc = "forward"
  /\ fwd' = fwd + 1
  /\ err' = "model"
  /\ iter' = iter + 1
  /\ pc' = "loop"
  /\ UNCHANGED <<vvars, ovars, tvars, gvars, session, globals, args, processed_image, data, alias,
                 requires_grad, grad, x, gcalls, result, build>>

\* output = model(x) raises: the exception leaves dream
ForwardRaises ==
  /\ pc = "forward"
  /\ fwd' = fwd + 1
  /\ err' = "model"
  /\ pc' = "error"
  /\ UNCHANGED <<vvars, ovars, tvars, gvars, session, globals, args, iter, processed_image, data, alias,
                 requires_grad, grad, x, gcalls, result, build>>

\* grad_fn(output): the backward pass fills data.grad
GradFn ==
  /\ pc = "grad_fn"
  /\ gcalls' = gcalls + 1
  /\ IF requires_grad
     THEN /\ grad' = Accumulate(grad, Backward(grad_fn, data, x))
          /\ pc' = "update"
          /\ err' = err
     ELSE /\ grad' = grad
          /\ pc' = "error"
          /\ err' = "grad_fn"
  /\ mparam' = IF mparam.req
               THEN [mparam EXCEPT !.grad = RAdd(@, ParamGrad(grad_fn, data, x))]
               ELSE mparam
  /\ UNCHANGED <<vvars, ovars, tvars, gvars, session, img, do_random_shifts, args, iter, processed_image, data, alias,
                 requires_grad, x, fwd, result, build>>

\* grad_fn(output) raises: the exception leaves dream
GradFnRaises ==
  /\ pc = "grad_fn"
  /\ gcalls' = gcalls + 1
  /\ err' = "grad_fn"
  /\ pc' = "error"
  /\ UNCHANGED <<vvars, ovars, tvars, gvars, session, globals, args, iter, processed_image, data, alias,
                 requires_grad, grad, x, fwd, result, build>>

\* the part of t inside the window w, as a tensor of the window's shape
Crop(t, w) ==
  Tensor(w.r1 - w.r0 + 1, w.c1 - w.c0 + 1,
         LAMBDA p : t.v[<<p[1], p[2] + w.r0 - 1, p[3] + w.c0 - 1>>])

\* Update with the crop taking the place of the working image (data = x)
UpdateCropped ==
  /\ pc = "update"
  /\ data' = Crop(SgdStep(data, grad, learning_rate), x)
  /\ processed_image' = processed_image
  /\ pc' = "clamp"
  /\ UNCHANGED <<vvars, ovars, tvars, gvars, session, globals, args, iter, alias, requires_grad, grad, x,
                 fwd, gcalls, result, err, build>>

\* Update applied to a detached copy: data itself is left as it was
UpdateDetached ==
  /\ pc = "update"
  /\ pc' = "clamp"
  /\ UNCHANGED <<vvars, ovars, tvars, gvars, session, globals, args, iter, processed_image, data,
                 alias, requires_grad, grad, x, fwd, gcalls, result, err, build>>

\* Update on a working image that shares its storage with the caller's img:
\* the step shows in img as well
UpdateThroughImage ==
  /\ pc = "update"
  /\ data' = SgdStep(data, grad, learning_rate)
  /\ processed_image' = IF alias THEN data' ELSE processed_image
  /\ img' = [img EXCEPT !.px = [q \in DOMAIN @ |-> 255 - @[q]]]
  /\ pc' = "clamp"
  /\ UNCHANGED <<vvars, ovars, tvars, gvars, session, do_random_shifts, mparam, args, iter, alias,
                 requires_grad, grad, x, fwd, gcalls, result, err, build>>

\* grad_mean = data.grad.abs().mean(); data += data.grad * learning_rate / grad_mean
Update ==
  /\ pc = "update"
  /\ data' = SgdStep(data, grad, learning_rate)
  /\ processed_image' = IF alias THEN data' ELSE processed_image
  /\ pc' = "clamp"
  /\ UNCHANGED <<vvars, ovars, tvars, gvars, session, globals, args, iter, alias, requires_grad, grad, x,
                 fwd, gcalls, result, err, build>>

\* Clamp done in place (data.clamp_): data stays the same tensor object
\* and keeps its gradient
ClampInPlace ==
  /\ pc = "clamp"
  /\ \E b \in (IF build = "unset" /\ HasNaN(data)
               THEN {"propagate", "select"} ELSE {build}) :
       /\ build' = b
       /\ data' = ClampToBounds(data, b)
  /\ processed_image' = IF alias THEN data' ELSE processed_image
  /\ iter' = iter + 1
  /\ pc' = "loop"
  /\ UNCHANGED <<vvars, ovars, tvars, gvars, session, globals, args, alias, requires_grad, grad,
                 x, fwd, gcalls, result, err>>

\* data = torch.max(data, clamp_min); data = torch.min(data, clamp_max):
\* data now names a new tensor, without gradient
Clamp ==
  /\ pc = "clamp"
  /\ \E b \in (IF build = "unset" /\ HasNaN(data)
               THEN {"propagate", "select"} ELSE {build}) :
       /\ build' = b
       /\ data' = ClampToBounds(data, b)
  /\ alias' = FALSE
  /\ requires_grad' = FALSE
  /\ grad' = NoTensor
  /\ iter' = iter + 1
  /\ pc' = "loop"
  /\ UNCHANGED <<vvars, ovars, tvars, gvars, session, globals, args, processed_image, x, fwd, gcalls, result, err>>

\* Finish with an early stop once the gradient step no longer moves the image
FinishEarly ==
  /\ pc = "loop" /\ (~(iter < n_iter) \/ data = processed_image)
  /\ result' = FinalImage(data)
  /\ pc' = "done"
  /\ UNCHANGED <<vvars, ovars, tvars, gvars, session, globals, args, iter, processed_image, data, alias,
                 requires_grad, grad, x, fwd, gcalls, err, build>>

\* result = unnormalize(data.to('cpu')).clamp(0, 1); return result.permute(1, 2, 0)
Finish ==
  /\ pc = "loop" /\ ~(iter < n_iter)
  /\ result' = FinalImage(data)
  /\ pc' = "done"
  /\ UNCHANGED <<vvars, ovars, tvars, gvars, session, globals, args, iter, processed_image, data, alias,
                 requires_grad, grad, x, fwd, gcalls, err, build>>

Next ==
  \/ Call
  \/ RequiresGrad
  \/ Shift
  \/ Forward
  \/ ForwardRaises
  \/ GradFn
  \/ GradFnRaises
  \/ Update
  \/ Clamp
  \/ Finish

Spec == Init /\ [][Next]_vars


\* ----------------------------------------------------- a notebook session
\* dream is called again and again; one earlier call without random shifts
\* is remembered with its returned image
SessionImages == {Image("gray", Size, Size), Image("mixed", Size - 1, Size)}

MaxSessionIter == 1

SessionIters == 0..MaxSessionIter

SessionGradFns == {"abs_sum", "sum"}

SessionRates == {Zero, Rat(1, 50)}

InitSession == InitWith(SessionImages)

CallAgain == CallWith(SessionIters, SessionGradFns, SessionRates)

\* dream has returned or raised: its frame (arguments and locals) is gone,
\* the notebook goes on
Return ==
  /\ pc \in {"done", "error"}
  /\ pc' = "idle"
  /\ \/ ref' = ref
     \/ /\ ~ref.set /\ pc = "done" /\ ~do_random_shifts
        /\ ref' = [set |-> TRUE, img |-> img, n_iter |-> n_iter,
                   grad_fn |-> grad_fn, learning_rate |-> learning_rate,
                   result |-> result, between |-> FALSE]
  /\ n_iter' = 0 /\ grad_fn' = "zero_stage" /\ learning_rate' = Zero
  /\ iter' = 0
  /\ processed_image' = NoTensor /\ data' = NoTensor /\ alias' = FALSE
  /\ requires_grad' = FALSE /\ grad' = NoTensor /\ x' = NoWindow
  /\ fwd' = 0 /\ gcalls' = 0 /\ result' = NoImage /\ err' = "none"
  /\ UNCHANGED <<vvars, ovars, tvars, gvars, globals, build>>

\* the notebook loads another image or flips do_random_shifts between calls
Configure ==
  /\ pc = "idle"
  /\ img' \in SessionImages /\ do_random_shifts' \in BOOLEAN
  /\ <<img', do_random_shifts'>> # <<img, do_random_shifts>>
  /\ UNCHANGED <<vvars, ovars, tvars, gvars, session, args, pc, iter, processed_image, data, alias,
                 requires_grad, grad, x, fwd, gcalls, result, err, build, mparam>>

NextSession ==
  \/ CallAgain
  \/ RequiresGrad
  \/ Shift
  \/ Forward
  \/ ForwardRaises
  \/ GradFn
  \/ GradFnRaises
  \/ Update
  \/ Clamp
  \/ Finish
  \/ Return
  \/ Configure

SpecSession == InitSession /\ [][NextSession]_vars


\* ------------------------------------------ the constant-gray scenario
\* dream(img, n_iter=5, grad_fn, learning_rate=0.02) on an all-gray image
\* with do_random_shifts off
GrayImages == {Image("gray", h, w) : h \in Dims, w \in Dims}

InitGray ==
  /\ img \in GrayImages
  /\ do_random_shifts = FALSE
  /\ DreamIdle
  /\ GuideOff
  /\ TrainOff
  /\ OptimOff
  /\ VizOff

CallGray == CallWith({5}, GradFns, {Rat(2, 100)})

NextGray ==
  \/ CallGray
  \/ RequiresGrad
  \/ Shift
  \/ Forward
  \/ ForwardRaises
  \/ GradFn
  \/ GradFnRaises
  \/ Update
  \/ Clamp
  \/ Finish

SpecGray == InitGray /\ [][NextGray]_vars


\* ------------------------------------------------- my_grad_fn (guided)
\* a feature tensor of shape (FeatChans, H, W) with H * W = FeatLocs is its
\* row-major buffer, a sequence of FeatChans * FeatLocs numbers
FeatChans == 2
FeatLocs == 2
FeatVals == {-1, 1, 2}

\* o.view(o.shape[0], -1)[c][l]
View(buf, c, l) == buf[(c - 1) * FeatLocs + l]

RECURSIVE DotUpTo(_, _, _, _, _)
DotUpTo(o, g, i, j, c) ==
  IF c = 0 THEN 0 ELSE View(o, c, i) * View(g, c, j) + DotUpTo(o, g, i, j, c - 1)

\* torch.matmul(o.t(), g)[i][j]
MatMulT(o, g) ==
  [i \in 1..FeatLocs |-> [j \in 1..FeatLocs |-> DotUpTo(o, g, i, j, FeatChans)]]

\* index of the first smallest element of row[1..n]
RECURSIVE ArgMinUpTo(_, _)
ArgMinUpTo(row, n) ==
  IF n = 1 THEN 1
  ELSE LET k == ArgMinUpTo(row, n - 1)
       IN  IF row[n] < row[k] THEN n ELSE k

\* index of the first largest element of row[1..n]
RECURSIVE ArgMaxUpTo(_, _)
ArgMaxUpTo(row, n) ==
  IF n = 1 THEN 1
  ELSE LET k == ArgMaxUpTo(row, n - 1)
       IN  IF row[n] > row[k] THEN n ELSE k

\* r.argmax(1)
ArgMax1(r) == [i \in 1..FeatLocs |-> ArgMaxUpTo(r[i], FeatLocs)]

\* g[:, idx].view(shape): the buffer of the gradient injected at the layer
Gather(g, idx) ==
  [k \in 1..(FeatChans * FeatLocs) |->
     View(g, ((k - 1) \div FeatLocs) + 1, idx[((k - 1) % FeatLocs) + 1])]

Features == [1..(FeatChans * FeatLocs) -> FeatVals]

Reversed(buf) == [k \in 1..Len(buf) |-> buf[Len(buf) + 1 - k]]

\* CustomResNet.forward: the ResNet blocks whose results are collected
layers == <<"layer1", "layer2", "layer3", "layer4">>

\* result = []; for layer in layers: result.append(layer(x)); then the
\* pooled features go through fc and are appended. A result is named by the
\* stage that produced it
RECURSIVE CollectFrom(_, _)
CollectFrom(res, k) ==
  IF k > Len(layers) THEN res
  ELSE CollectFrom(Append(res, layers[k]), k + 1)

CustomResNetForward == Append(CollectFrom(<<>>, 1), "fc")

\* torch.zeros(1000, 1, 1): the number of classes
NumClasses == 1000

\* the ImageNet classes my_grad_fn2 puts the focus on
FocusClasses == {153, 281}

\* ClassSeed with only the first designated class set
ClassSeedFirstOnly == [k \in 0..(NumClasses - 1) |-> IF k = 153 THEN 1 ELSE 0]

\* grad_ = torch.zeros(1000, 1, 1); grad_[153] = 1; grad_[281] = 1
ClassSeed == [k \in 0..(NumClasses - 1) |-> IF k \in FocusClasses THEN 1 ELSE 0]

\* the guide features and the features the working image will have at the
\* guided stage; the forward pass has not run yet
InitGuide ==
  /\ img = NoPil /\ do_random_shifts = FALSE
  /\ DreamIdle
  /\ feat \in Features
  /\ guide \in {feat, Reversed(feat)}
  /\ sel = <<>> /\ inj = <<>>
  /\ output = <<>> /\ seed = <<>> /\ seed_stage = "none"
  /\ gpc = "model"
  /\ TrainOff
  /\ OptimOff
  /\ VizOff

\* output = model(x): the list CustomResNet.forward returns
GuideForward ==
  /\ gpc = "model"
  /\ output' = CustomResNetForward
  /\ gpc' = "ready"
  /\ UNCHANGED <<vvars, ovars, tvars, dvars, feat, guide, sel, inj, seed, seed_stage>>

\* my_grad_fn(output) up to output[layer].backward(r)
MyGradFn ==
  /\ gpc = "ready"
  /\ sel' = ArgMax1(MatMulT(feat, guide))
  /\ inj' = Gather(guide, sel')
  /\ gpc' = "done"
  /\ UNCHANGED <<vvars, ovars, tvars, dvars, feat, guide, output, seed, seed_stage>>

\* my_grad_fn2(output) up to output[4].backward(grad_): the seed and the
\* stage it is injected at (output[4] is the fifth element)
MyGradFn2 ==
  /\ gpc = "ready"
  /\ seed' = ClassSeed
  /\ seed_stage' = output[4 + 1]
  /\ gpc' = "done2"
  /\ UNCHANGED <<vvars, ovars, tvars, dvars, feat, guide, sel, inj, output>>

NextGuide ==
  \/ GuideForward
  \/ MyGradFn
  \/ MyGradFn2


SpecGuide == InitGuide /\ [][NextGuide]_vars


\* the notebook before train_model(model_ft, ...) or train_model(model_conv, ...):
\* the model is built and in training mode, its optimizer and scheduler exist
InitTrain ==
  /\ img = NoPil /\ do_random_shifts = FALSE
  /\ DreamIdle
  /\ GuideOff
  /\ \E s \in {"ft", "conv"} :
       /\ setup = s
       /\ req = (IF s = "ft" THEN model_ft ELSE model_conv).req
       /\ opt_params = (IF s = "ft" THEN model_ft ELSE model_conv).opt
       /\ weights = InitialWeights
  /\ pgrad = NoGrads /\ training = TRUE
  /\ opt_lr = base_lr /\ last_epoch = 0
  /\ num_epochs = 0 /\ tpc = "ready" /\ epoch = 0 /\ phase = "none" /\ batch = 0
  /\ running_corrects = 0 /\ corrects = 0 /\ step_dir = 0
  /\ best_acc = Zero /\ best_model_wts = NoWeights
  /\ entry_wts = NoWeights /\ log = <<>>
  /\ OptimOff
  /\ VizOff

\* train_model(model, criterion, optimizer, scheduler, num_epochs):
\* best_model_wts = copy.deepcopy(model.state_dict()); best_acc = 0.0
TrainModel ==
  /\ tpc = "ready"
  /\ num_epochs' \in 0..MaxEpochs
  /\ best_model_wts' = weights
  /\ best_acc' = Zero
  /\ entry_wts' = weights
  /\ epoch' = 0
  /\ tpc' = "epoch"
  /\ UNCHANGED <<vvars, ovars, dvars, gvars, setup, req, opt_params, weights, pgrad, training, opt_lr,
                 last_epoch, phase, batch, running_corrects, corrects, step_dir, log>>

\* for epoch in range(num_epochs): for phase in ['train', 'val']: first phase
NextEpoch ==
  /\ tpc = "epoch" /\ epoch < num_epochs
  /\ phase' = "train"
  /\ tpc' = "phase"
  /\ UNCHANGED <<vvars, ovars, dvars, gvars, setup, req, opt_params, weights, pgrad, training, opt_lr,
                 last_epoch, num_epochs, epoch, batch, running_corrects, corrects,
                 step_dir, best_acc, best_model_wts, entry_wts, log>>

\* StartPhase without the call of model.train(phase == 'train')
StartPhaseKeepMode ==
  /\ tpc = "phase"
  /\ running_corrects' = 0
  /\ batch' = 0
  /\ tpc' = "batch"
  /\ UNCHANGED <<vvars, ovars, dvars, gvars, setup, req, opt_params, weights, pgrad, training, opt_lr,
                 last_epoch, num_epochs, epoch, phase, corrects,
                 step_dir, best_acc, best_model_wts, entry_wts, log>>

\* model.train(phase == 'train'); running_corrects = 0
StartPhase ==
  /\ tpc = "phase"
  /\ training' = (phase = "train")
  /\ running_corrects' = 0
  /\ batch' = 0
  /\ tpc' = "batch"
  /\ UNCHANGED <<vvars, ovars, dvars, gvars, setup, req, opt_params, weights, pgrad, opt_lr,
                 last_epoch, num_epochs, epoch, phase, corrects,
                 step_dir, best_acc, best_model_wts, entry_wts, log>>

\* for inputs, labels in dataloaders[phase]: optimizer.zero_grad()
ZeroGrad ==
  /\ tpc = "batch" /\ batch < NBatches(phase)
  /\ pgrad' = [p \in Params |-> IF p \in opt_params THEN 0 ELSE pgrad[p]]
  /\ tpc' = "forward"
  /\ UNCHANGED <<vvars, ovars, dvars, gvars, setup, req, opt_params, weights, training, opt_lr,
                 last_epoch, num_epochs, epoch, phase, batch, running_corrects,
                 corrects, step_dir, best_acc, best_model_wts, entry_wts, log>>

\* ForwardLoss followed by backward and the two steps in either phase
ForwardLossAlways ==
  /\ tpc = "forward"
  /\ corrects' \in 0..batch_size
  /\ step_dir' \in Grads /\ tpc' = "backward"
  /\ UNCHANGED <<vvars, ovars, dvars, gvars, setup, req, opt_params, weights, pgrad, training, opt_lr,
                 last_epoch, num_epochs, epoch, phase, batch, running_corrects,
                 best_acc, best_model_wts, entry_wts, log>>

\* with torch.set_grad_enabled(phase == 'train'): outputs = model(inputs);
\* preds; loss = criterion(outputs, labels). The batch decides how many
\* predictions are right and, with gradients enabled, where the loss points
ForwardLoss ==
  /\ tpc = "forward"
  /\ corrects' \in 0..batch_size
  /\ IF phase = "train"
     THEN step_dir' \in Grads /\ tpc' = "backward"
     ELSE step_dir' = 0 /\ tpc' = "stats"
  /\ UNCHANGED <<vvars, ovars, dvars, gvars, setup, req, opt_params, weights, pgrad, training, opt_lr,
                 last_epoch, num_epochs, epoch, phase, batch, running_corrects,
                 best_acc, best_model_wts, entry_wts, log>>

\* if phase == 'train': loss.backward()
LossBackward ==
  /\ tpc = "backward"
  /\ pgrad' = [p \in Params |-> IF req[p] THEN pgrad[p] + step_dir ELSE pgrad[p]]
  /\ tpc' = "opt_step"
  /\ UNCHANGED <<vvars, ovars, dvars, gvars, setup, req, opt_params, weights, training, opt_lr,
                 last_epoch, num_epochs, epoch, phase, batch, running_corrects,
                 corrects, step_dir, best_acc, best_model_wts, entry_wts, log>>

\* optimizer.step()
OptimizerStep ==
  /\ tpc = "opt_step"
  /\ weights' = [p \in Params |->
                   IF p \in opt_params
                   THEN RSub(weights[p], RMul(opt_lr, Rat(pgrad[p], 1)))
                   ELSE weights[p]]
  /\ tpc' = "sched_step"
  /\ UNCHANGED <<vvars, ovars, dvars, gvars, setup, req, opt_params, pgrad, training, opt_lr,
                 last_epoch, num_epochs, epoch, phase, batch, running_corrects,
                 corrects, step_dir, best_acc, best_model_wts, entry_wts, log>>

\* scheduler.step(): StepLR multiplies the rate by gamma at every
\* step_size-th call
SchedulerStep ==
  /\ tpc = "sched_step"
  /\ last_epoch' = last_epoch + 1
  /\ opt_lr' = IF last_epoch' % step_size = 0 THEN RMul(opt_lr, gamma) ELSE opt_lr
  /\ tpc' = "stats"
  /\ UNCHANGED <<vvars, ovars, dvars, gvars, setup, req, opt_params, weights, pgrad, training,
                 num_epochs, epoch, phase, batch, running_corrects,
                 corrects, step_dir, best_acc, best_model_wts, entry_wts, log>>

\* running_corrects += float(torch.sum(preds == labels)); next batch
Statistics ==
  /\ tpc = "stats"
  /\ running_corrects' = running_corrects + corrects
  /\ batch' = batch + 1
  /\ tpc' = "batch"
  /\ UNCHANGED <<vvars, ovars, dvars, gvars, setup, req, opt_params, weights, pgrad, training, opt_lr,
                 last_epoch, num_epochs, epoch, phase, corrects,
                 step_dir, best_acc, best_model_wts, entry_wts, log>>

\* EndPhase keeping the latest of the epochs that reach the best accuracy
EndPhaseKeepLatest ==
  /\ tpc = "batch" /\ ~(batch < NBatches(phase))
  /\ LET epoch_acc == Rat(running_corrects, dataset_sizes(phase))
     IN  IF phase = "val"
         THEN /\ IF RLeq(best_acc, epoch_acc)
                 THEN best_acc' = epoch_acc /\ best_model_wts' = weights
                 ELSE UNCHANGED <<best_acc, best_model_wts>>
              /\ log' = Append(log, [acc |-> epoch_acc, wts |-> weights])
              /\ epoch' = epoch + 1 /\ phase' = phase
              /\ tpc' = "epoch"
         ELSE /\ phase' = "val" /\ tpc' = "phase"
              /\ UNCHANGED <<best_acc, best_model_wts, log, epoch>>
  /\ UNCHANGED <<vvars, ovars, dvars, gvars, setup, req, opt_params, weights, pgrad, training, opt_lr,
                 last_epoch, num_epochs, batch, running_corrects, corrects,
                 step_dir, entry_wts>>

\* the batches of the phase are done: epoch_acc = running_corrects /
\* dataset_sizes[phase]; if phase == 'val' and epoch_acc > best_acc: take the
\* snapshot; then the next phase or the next epoch. log remembers each
\* epoch's validation accuracy and the weights at that moment
EndPhase ==
  /\ tpc = "batch" /\ ~(batch < NBatches(phase))
  /\ LET epoch_acc == Rat(running_corrects, dataset_sizes(phase))
     IN  IF phase = "val"
         THEN /\ IF RLess(best_acc, epoch_acc)
                 THEN best_acc' = epoch_acc /\ best_model_wts' = weights
                 ELSE UNCHANGED <<best_acc, best_model_wts>>
              /\ log' = Append(log, [acc |-> epoch_acc, wts |-> weights])
              /\ epoch' = epoch + 1 /\ phase' = phase
              /\ tpc' = "epoch"
         ELSE /\ phase' = "val" /\ tpc' = "phase"
              /\ UNCHANGED <<best_acc, best_model_wts, log, epoch>>
  /\ UNCHANGED <<vvars, ovars, dvars, gvars, setup, req, opt_params, weights, pgrad, training, opt_lr,
                 last_epoch, num_epochs, batch, running_corrects, corrects,
                 step_dir, entry_wts>>

\* LoadBest without load_state_dict: the model is returned as trained
LoadBestSkipped ==
  /\ tpc = "epoch" /\ ~(epoch < num_epochs)
  /\ tpc' = "returned"
  /\ UNCHANGED <<vvars, ovars, dvars, gvars, setup, req, opt_params, weights, pgrad, training, opt_lr,
                 last_epoch, num_epochs, epoch, phase, batch, running_corrects,
                 corrects, step_dir, best_acc, best_model_wts, entry_wts, log>>

\* model.load_state_dict(best_model_wts); return model
LoadBest ==
  /\ tpc = "epoch" /\ ~(epoch < num_epochs)
  /\ weights' = best_model_wts
  /\ tpc' = "returned"
  /\ UNCHANGED <<vvars, ovars, dvars, gvars, setup, req, opt_params, pgrad, training, opt_lr,
                 last_epoch, num_epochs, epoch, phase, batch, running_corrects,
                 corrects, step_dir, best_acc, best_model_wts, entry_wts, log>>

NextTrain ==
  \/ TrainModel
  \/ NextEpoch
  \/ StartPhase
  \/ ZeroGrad
  \/ ForwardLoss
  \/ LossBackward
  \/ OptimizerStep
  \/ SchedulerStep
  \/ Statistics
  \/ EndPhase
  \/ LoadBest

SpecTrain == InitTrain /\ [][NextTrain]_vars


\* the notebook before the cell that creates weight, bias and the optimizers
InitOptim ==
  /\ img = NoPil /\ do_random_shifts = FALSE
  /\ DreamIdle
  /\ GuideOff
  /\ TrainOff
  /\ VizOff
  /\ heap = NoHeap /\ ograd = NoHeap /\ obuf = NoHeap
  /\ params = [o \in Optimizers |-> <<0, 0>>]
  /\ trained = {} /\ cur = "none" /\ oepoch = 0 /\ sample = 0
  /\ sgrad = NoSampleGrad /\ opc = "new" /\ steps = 0

\* weight = torch.randn(2, requires_grad=True); bias = torch.randn(1, ...);
\* params_x = [weight.data.clone().requires_grad_(), bias.data.clone()...]
\* and the optimizer built on params_x, for each of the four optimizers
CreateParams ==
  /\ opc = "new"
  /\ \E w0 \in RandN, b0 \in RandN :
       heap' = [i \in ObjIds |-> IF i % 2 = 1 THEN w0 ELSE b0]
  /\ params' = [o \in Optimizers |->
                  <<Clone(WeightId, Slot(o)[1]), Clone(BiasId, Slot(o)[2])>>]
  /\ opc' = "idle"
  /\ UNCHANGED <<vvars, dvars, gvars, tvars, ograd, obuf, trained, cur, oepoch, sample,
                 sgrad, steps>>

\* loss_x = train(x, params_x[0], params_x[1]): loss_epoch = [0] * n_epochs
Train ==
  /\ opc = "idle"
  /\ \E o \in Optimizers \ trained : cur' = o
  /\ oepoch' = 0 /\ sample' = 0 /\ steps' = 0
  /\ opc' = "loop"
  /\ UNCHANGED <<vvars, dvars, gvars, tvars, heap, ograd, obuf, params, trained, sgrad>>

\* OptimZeroGrad without the call of optimizer.zero_grad()
OptimZeroGradMissing ==
  /\ opc = "loop" /\ oepoch < n_epochs /\ sample < NSamples
  /\ opc' = "forward"
  /\ UNCHANGED <<vvars, dvars, gvars, tvars, heap, ograd, obuf, params, trained, cur, oepoch,
                 sample, sgrad, steps>>

\* for epoch in range(n_epochs): for i in range(100): optimizer.zero_grad()
OptimZeroGrad ==
  /\ opc = "loop" /\ oepoch < n_epochs /\ sample < NSamples
  /\ ograd' = [i \in ObjIds |-> IF i \in {params[cur][1], params[cur][2]}
                                 THEN Zero ELSE ograd[i]]
  /\ opc' = "forward"
  /\ UNCHANGED <<vvars, dvars, gvars, tvars, heap, obuf, params, trained, cur, oepoch,
                 sample, sgrad, steps>>

\* y_predicted = torch.dot(X[i], weight) + bias; loss = loss_fn(...): the
\* sample decides the gradients the loss has
OptimForward ==
  /\ opc = "forward"
  /\ sgrad' \in SampleGrads
  /\ opc' = "backward"
  /\ UNCHANGED <<vvars, dvars, gvars, tvars, heap, ograd, obuf, params, trained, cur,
                 oepoch, sample, steps>>

\* loss.backward(): the gradients are added to the .grad of the tensors the
\* forward pass read. Two names of one object add into the same .grad
OptimBackward ==
  /\ opc = "backward"
  /\ LET wid == params[cur][1]
         bid == params[cur][2]
     IN  ograd' = [i \in ObjIds |->
                     RAdd(ograd[i],
                          RAdd(IF i = wid THEN sgrad.w ELSE Zero,
                               IF i = bid THEN sgrad.b ELSE Zero))]
  /\ opc' = "step"
  /\ UNCHANGED <<vvars, dvars, gvars, tvars, heap, obuf, params, trained, cur, oepoch,
                 sample, sgrad, steps>>

\* optimizer.step(); loss_epoch[epoch] += loss.item(); next sample
OptimStep ==
  /\ opc = "step"
  /\ LET mine == {params[cur][1], params[cur][2]}
         buf == [i \in ObjIds |->
                   IF i \in mine /\ cur = "sgdmom"
                   THEN (IF steps = 0 THEN ograd[i]
                         ELSE RAdd(RMul(momentum, obuf[i]), ograd[i]))
                   ELSE obuf[i]]
     IN  /\ obuf' = buf
         /\ heap' = [i \in ObjIds |->
                       IF i \in mine
                       THEN RSub(heap[i], StepOf(cur, ograd[i], buf[i]))
                       ELSE heap[i]]
  /\ steps' = steps + 1
  /\ sample' = sample + 1
  /\ opc' = "loop"
  /\ UNCHANGED <<vvars, dvars, gvars, tvars, ograd, params, trained, cur, oepoch, sgrad>>

\* the samples of the epoch are done: next epoch
OptimNextEpoch ==
  /\ opc = "loop" /\ oepoch < n_epochs /\ ~(sample < NSamples)
  /\ oepoch' = oepoch + 1
  /\ sample' = 0
  /\ UNCHANGED <<vvars, dvars, gvars, tvars, heap, ograd, obuf, params, trained, cur,
                 sgrad, opc, steps>>

\* return loss_epoch
TrainReturn ==
  /\ opc = "loop" /\ ~(oepoch < n_epochs)
  /\ trained' = trained \cup {cur}
  /\ cur' = "none"
  /\ opc' = "idle"
  /\ UNCHANGED <<vvars, dvars, gvars, tvars, heap, ograd, obuf, params, oepoch, sample,
                 sgrad, steps>>

NextOptim ==
  \/ CreateParams
  \/ Train
  \/ OptimZeroGrad
  \/ OptimForward
  \/ OptimBackward
  \/ OptimStep
  \/ OptimNextEpoch
  \/ TrainReturn

SpecOptim == InitOptim /\ [][NextOptim]_vars


\* ------------------------------------------------- either training loop
\* one of the two notebooks runs: train_model or the optimizer comparison
InitEither == InitTrain \/ InitOptim

NextEither == NextTrain \/ NextOptim

SpecEither == InitEither /\ [][NextEither]_vars


\* ---------------------------------------------------------- visualize_model
\* The validation set is val_size images, served by
\* DataLoader(batch_size=batch_size) in order: every batch is full but the
\* last. model_training is model.training; shown counts the imshow calls.
MaxImages == 4
MaxVal == 5

\* len(dataloaders['val'])
NumValBatches == (val_size + batch_size - 1) \div batch_size

\* inputs.size(0) of batch i (1-based)
InputsSize(i) == IF i * batch_size <= val_size THEN batch_size
                 ELSE val_size - (i - 1) * batch_size

\* plt.subplot(nrows, ncols, index) returns an axes when the grid has at
\* least one row and one column and index names one of its cells; it raises
\* ValueError otherwise
SubplotOk(nrows, ncols, index) ==
  /\ nrows >= 1 /\ ncols >= 1
  /\ index >= 1 /\ index <= nrows * ncols

InitViz ==
  /\ img = NoPil /\ do_random_shifts = FALSE
  /\ DreamIdle /\ GuideOff /\ TrainOff /\ OptimOff
  /\ vpc = "ready"
  /\ model_training \in BOOLEAN
  /\ val_size \in 0..MaxVal
  /\ was_training = FALSE /\ images_so_far = 0 /\ num_images = 0
  /\ vi = 0 /\ vj = 0 /\ shown = 0

\* visualize_model(model, num_images): was_training = model.training;
\* model.eval(); images_so_far = 0
VisualizeModel ==
  /\ vpc = "ready"
  /\ \E n \in 1..MaxImages : num_images' = n
  /\ was_training' = model_training
  /\ model_training' = FALSE
  /\ images_so_far' = 0
  /\ vi' = 1 /\ vj' = 0 /\ shown' = 0
  /\ vpc' = "batches"
  /\ UNCHANGED <<ovars, tvars, dvars, gvars, val_size>>

\* for i, (inputs, labels) in enumerate(dataloaders['val']): outputs, preds
VizNextBatch ==
  /\ vpc = "batches" /\ vi <= NumValBatches
  /\ vj' = 1
  /\ vpc' = "images"
  /\ UNCHANGED <<ovars, tvars, dvars, gvars, model_training, was_training,
                 images_so_far, num_images, val_size, vi, shown>>

\* the validation set is exhausted: model.train(mode=was_training)
VizExhausted ==
  /\ vpc = "batches" /\ ~(vi <= NumValBatches)
  /\ model_training' = was_training
  /\ vpc' = "returned"
  /\ UNCHANGED <<ovars, tvars, dvars, gvars, was_training, images_so_far,
                 num_images, val_size, vi, vj, shown>>

\* images_so_far += 1; ax = plt.subplot(num_images // 2, 2, images_so_far):
\* a ValueError leaves the function at once
VizSubplot ==
  /\ vpc = "images" /\ vj <= InputsSize(vi)
  /\ images_so_far' = images_so_far + 1
  /\ vpc' = IF SubplotOk(num_images \div 2, 2, images_so_far + 1)
            THEN "imshow" ELSE "raised"
  /\ UNCHANGED <<ovars, tvars, dvars, gvars, model_training, was_training,
                 num_images, val_size, vi, vj, shown>>

\* imshow(inputs[j]); if images_so_far == num_images:
\* model.train(mode=was_training); return
VizImshow ==
  /\ vpc = "imshow"
  /\ shown' = shown + 1
  /\ IF images_so_far = num_images
     THEN /\ model_training' = was_training
          /\ vpc' = "returned"
          /\ UNCHANGED vj
     ELSE /\ vj' = vj + 1
          /\ vpc' = "images"
          /\ UNCHANGED model_training
  /\ UNCHANGED <<ovars, tvars, dvars, gvars, was_training, images_so_far,
                 num_images, val_size, vi>>

\* the images of the batch are done: next batch
VizEndBatch ==
  /\ vpc = "images" /\ ~(vj <= InputsSize(vi))
  /\ vi' = vi + 1
  /\ vpc' = "batches"
  /\ UNCHANGED <<ovars, tvars, dvars, gvars, model_training, was_training,
                 images_so_far, num_images, val_size, vj, shown>>

NextViz ==
  \/ VisualizeModel
  \/ VizNextBatch
  \/ VizExhausted
  \/ VizSubplot
  \/ VizImshow
  \/ VizEndBatch

SpecViz == InitViz /\ [][NextViz]_vars


\* ================================================================= claims
InRange01(a) == RLeq(Zero, a) /\ RLeq(a, One)

\* the image dream returns when no iteration changes the preprocessed image
Untouched == FinalImage(img_transform(img))

\* C1: every element of the image returned by dream lies in [0, 1], for any
\* objective, any n_iter and either setting of do_random_shifts.
C1_ReturnedImageInRange ==
  pc = "done" => \A q \in DOMAIN result.v : InRange01(result.v[q])

\* C2 as stated: the returned image has the height and width of the source
\* image passed in.
C2_SourceDims ==
  pc = "done" => (result.h = img.h /\ result.w = img.w)

\* C2 amended: the returned image has the height and width of the resized
\* source: the smaller edge is Size, the other edge int(Size * long / short),
\* whatever n_iter is and with random shifting enabled or disabled.
C2_ResizedDims ==
  pc = "done" =>
    /\ IF img.h <= img.w
       THEN result.h = Size /\ result.w = (Size * img.w) \div img.h
       ELSE result.w = Size /\ result.h = (Size * img.h) \div img.w
    /\ DOMAIN result.v = (1..result.h) \X (1..result.w) \X Chans

C2_Witness ==
  /\ pc = "done" /\ do_random_shifts /\ iter >= 1
  /\ result.h # img.h

\* C3: with learning_rate = 0 the returned image equals the input image
\* (normalized, unnormalized, clamped), for any n_iter and any objective.
C3_ZeroRateKeepsImage ==
  (pc = "done" /\ learning_rate = Zero) => result = Untouched

\* C4: with n_iter = 0 dream runs no forward pass, never calls grad_fn and
\* returns unnormalize(normalize(input)) clamped to [0, 1], whatever grad_fn.
C4_ZeroIterations ==
  (pc # "idle" /\ n_iter = 0) =>
    /\ fwd = 0 /\ gcalls = 0
    /\ pc \in {"loop", "done"}
    /\ pc = "done" => result = Untouched

C4_Witness ==
  /\ pc = "done" /\ n_iter = 0
  /\ grad_fn = "sum" /\ learning_rate = Rat(1, 50)
  /\ result # NoImage

\* C5: an iteration whose gradient is all zero (mean absolute gradient 0)
\* does not raise and leaves the working image as it was before the step.
C5_ZeroGradientNoOp ==
  [][(pc = "update" /\ AbsMean(grad) = Zero) => (pc' = "clamp" /\ data' = data)]_vars

\* C6 as stated: a call with negative n_iter or learning_rate <= 0 ends in
\* an error before any forward pass: it neither runs a forward pass nor
\* returns an image.
C6_InvalidConfigRejected ==
  (pc # "idle" /\ (n_iter < 0 \/ RLeq(learning_rate, Zero))) =>
    (pc # "done" /\ fwd = 0)

\* C6 amended: dream checks no argument.  With negative n_iter it runs no
\* iteration and returns the preprocessed image without error; with
\* learning_rate <= 0 it runs its n_iter iterations; an error arises only
\* from a forward pass or grad_fn that raises, never at entry.
C6_NoValidation ==
  /\ (pc # "idle" /\ n_iter < 0) =>
       /\ fwd = 0 /\ gcalls = 0 /\ err = "none"
       /\ pc \in {"loop", "done"}
       /\ pc = "done" => result = Untouched
  /\ (pc = "done" /\ n_iter >= 0 /\ RLeq(learning_rate, Zero)) => fwd = n_iter
  /\ pc = "error" => fwd >= 1

C6_Witness ==
  pc = "done" /\ n_iter < 0 /\ RLess(learning_rate, Zero)

\* C7: without random shifts, a dream call with the image and arguments of
\* an earlier call returns the image the earlier call returned, also when
\* other calls ran in between.
C7_Deterministic ==
  (pc = "done" /\ Repeats(ref, img, n_iter, grad_fn, learning_rate, do_random_shifts))
    => result = ref.result

C7_Witness ==
  /\ pc = "done" /\ n_iter >= 1 /\ grad_fn = "sum"
  /\ Repeats(ref, img, n_iter, grad_fn, learning_rate, do_random_shifts)
  /\ ref.between

\* C8: a dream call whose model and grad_fn always return ends after exactly
\* n_iter iterations: n_iter forward passes and n_iter grad_fn calls, no
\* early stop and no extra iteration.
C8_ExactIterations ==
  /\ (pc = "done" /\ n_iter >= 0) =>
       (iter = n_iter /\ fwd = n_iter /\ gcalls = n_iter)
  /\ (pc # "idle" /\ n_iter >= 0) => (fwd <= n_iter /\ gcalls <= fwd)

C8_Witness ==
  /\ pc = "done" /\ n_iter >= 2 /\ fwd = n_iter
  /\ grad_fn = "zero_stage"

\* C9: when the forward pass or grad_fn raises in an iteration, dream ends
\* with that error: no later iteration runs, nothing is retried, no image
\* is returned.
C9_ErrorAborts ==
  /\ err # "none" => pc = "error"
  /\ pc = "error" =>
       /\ err \in {"model", "grad_fn"}
       /\ result = NoImage
       /\ fwd = iter + 1
       /\ gcalls = (IF err = "model" THEN iter ELSE iter + 1)
       /\ ~ENABLED Next

C9_Witness ==
  pc = "error" /\ err = "model" /\ iter >= 1

\* location i's feature vector has a strictly larger dot product with itself
\* than with the vector of any other location
SelfDominant(r, i) == \A j \in 1..FeatLocs : j # i => r[i][j] < r[i][i]

\* C10 as stated: when the guide features equal the working features, the
\* best-match index is at every location the location itself and the
\* injected gradient equals the working activation tensor.
C10_SelfMatch ==
  (gpc = "done" /\ guide = feat) =>
    ((\A i \in 1..FeatLocs : sel[i] = i) /\ inj = feat)

\* C10 amended: when the guide features equal the working features, the
\* index chosen at location i maximizes the dot product with location i's
\* vector (so it is at least the vector's dot product with itself); it is i
\* itself where that vector's dot product with itself is strictly the
\* largest, and when this holds at every location the injected gradient
\* equals the working activation tensor.
C10_BestMatch ==
  (gpc = "done" /\ guide = feat) =>
    LET r == MatMulT(feat, feat)
    IN  /\ \A i \in 1..FeatLocs :
             /\ sel[i] \in 1..FeatLocs
             /\ \A j \in 1..FeatLocs : r[i][j] <= r[i][sel[i]]
             /\ SelfDominant(r, i) => sel[i] = i
        /\ (\A i \in 1..FeatLocs : SelfDominant(r, i)) => inj = feat

C10_Witness ==
  /\ gpc = "done" /\ guide = feat
  /\ \A i \in 1..FeatLocs : SelfDominant(MatMulT(feat, feat), i)
  /\ inj = feat

\* gamma ** k
RECURSIVE GammaPow(_)
GammaPow(k) == IF k = 0 THEN One ELSE RMul(gamma, GammaPow(k - 1))

\* train_model is between its entry and its return
Training == tpc \in {"epoch", "phase", "batch", "forward", "backward", "opt_step",
                     "sched_step", "stats"}

\* C11: throughout epoch e of train_model the optimizer's learning rate is
\* the initial rate times 0.1 ** (e div 7): it decays once every 7 epochs.
C11_LrDecaysPerEpoch ==
  (Training /\ epoch < num_epochs) =>
    opt_lr = RMul(base_lr, GammaPow(epoch \div step_size))

\* the earliest epoch (1-based index into log) whose validation accuracy
\* is the highest of the run
BestEpoch(l) ==
  CHOOSE k \in 1..Len(l) :
    \A j \in 1..Len(l) :
      /\ RLeq(l[j].acc, l[k].acc)
      /\ j < k => RLess(l[j].acc, l[k].acc)

SomeValAccPositive(l) == \E j \in 1..Len(l) : RLess(Zero, l[j].acc)

\* C12: best_acc never decreases, and when some epoch has validation
\* accuracy > 0 train_model returns the model loaded with the weights it had
\* right after the validation phase of the earliest epoch of highest
\* validation accuracy.
C12_ReturnsBestWeights ==
  [][/\ RLeq(best_acc, best_acc')
     /\ (tpc' = "returned" /\ SomeValAccPositive(log')) =>
          /\ weights' = log'[BestEpoch(log')].wts
          /\ best_acc' = log'[BestEpoch(log')].acc]_vars

\* two epochs tie on a positive validation accuracy with different weights
\* and the returned weights are the first epoch's, not the last epoch's
C12_Witness ==
  /\ tpc = "returned" /\ Len(log) = 2
  /\ log[1].acc = log[2].acc /\ RLess(Zero, log[1].acc)
  /\ log[1].wts # log[2].wts
  /\ weights = log[1].wts

\* C13: in the fixed-feature-extractor setup every parameter other than
\* those of the final fc layer keeps, during and after train_model, the
\* value it had before training, and receives no gradient.
C13_BodyFrozen ==
  (setup = "conv" /\ tpc # "ready") =>
    /\ weights["body"] = entry_wts["body"]
    /\ best_model_wts["body"] = entry_wts["body"]
    /\ pgrad["body"] = 0

\* the feature extractor has been trained for two epochs and returned: fc
\* has changed, the body has not
C13_Witness ==
  /\ setup = "conv" /\ tpc = "returned" /\ epoch = 2
  /\ weights["fc"] # entry_wts["fc"]
  /\ weights["body"] = entry_wts["body"]

\* the values of the two tensors of params_o
ValuesOf(h, ps, o) == <<h[ps[o][1]], h[ps[o][2]]>>

\* C14: right after their creation the four parameter sets hold the values
\* of weight and bias, the six names denote distinct tensor objects, and a
\* step taken while one optimizer trains changes neither the parameter sets
\* of the other three optimizers nor weight and bias.
C14_IndependentCopies ==
  [][/\ opc = "new" =>
          /\ \A o \in Optimizers : ValuesOf(heap', params', o) = <<heap'[WeightId], heap'[BiasId]>>
          /\ \A o \in Optimizers : params'[o][1] # WeightId /\ params'[o][2] # BiasId
          /\ \A o1, o2 \in Optimizers :
               o1 # o2 => {params'[o1][1], params'[o1][2]} \cap
                          {params'[o2][1], params'[o2][2]} = {}
     /\ opc # "new" =>
          /\ heap'[WeightId] = heap[WeightId] /\ heap'[BiasId] = heap[BiasId]
          /\ \A o \in Optimizers \ {cur} : ValuesOf(heap', params', o) = ValuesOf(heap, params, o)]_vars

\* all four optimizers have trained: each parameter set has moved away
\* from weight and bias
C14_Witness ==
  /\ trained = Optimizers /\ opc = "idle"
  /\ \A o \in Optimizers :
       /\ heap[params[o][1]] # heap[WeightId]
       /\ heap[params[o][2]] # heap[BiasId]

\* C15: no step of a dream run changes the forward model's parameters,
\* their requires_grad flag (False) or their .grad (none), and none changes
\* the source image: the working image is all an iteration updates.
C15_ModelUntouched ==
  [][/\ mparam' = mparam
     /\ ~mparam'.req /\ mparam'.grad = Zero
     /\ img' = img]_vars

\* an iteration with a backward pass has changed the working image
C15_Witness ==
  /\ pc = "loop" /\ iter = 1 /\ gcalls = 1
  /\ ~HasNaN(data)
  /\ data # img_transform(img)
  /\ mparam = model_parameters

\* C16: at the end of every iteration of dream every element of channel c
\* of the working image lies in [-mean_c/std_c, (1-mean_c)/std_c].
C16_ClampedAfterIteration ==
  (pc \in {"loop", "done"} /\ iter >= 1) =>
    \A p \in DOMAIN data.v :
      /\ RLeq(clamp_min[p[1]], data.v[p])
      /\ RLeq(data.v[p], clamp_max[p[1]])

\* C17: in every iteration of dream the gradient used for the update is the
\* gradient of that iteration's backward pass alone: when the update is
\* about to run, data.grad holds no contribution of an earlier iteration.
C17_FreshGradient ==
  pc = "update" => grad = Backward(grad_fn, data, x)

\* the second iteration is about to update with a nonzero gradient
C17_Witness ==
  /\ pc = "update" /\ iter = 1
  /\ ~HasNaN(data)
  /\ AbsMean(grad) # Zero
  /\ grad = Backward(grad_fn, data, x)

\* C18 as stated: with random shifting enabled the crop is taken first and
\* gradient tracking is enabled afterwards: when random_shift is about to
\* run, the working image does not track gradients yet.
C18_CropBeforeTracking ==
  (do_random_shifts /\ pc = "shift") => ~requires_grad

\* C18 amended: in each iteration gradient tracking is enabled on the whole
\* working image first and the crop is taken from the tracked image; the
\* forward pass, the backward pass, the update and the clamp follow in that
\* order, once each, and all complete before the next iteration starts.
C18_TrackingBeforeCrop ==
  /\ pc \in {"shift", "forward"} =>
       requires_grad /\ fwd = iter /\ gcalls = iter /\ grad = NoTensor
  /\ pc = "forward" => x \in {Window(data, a, b, c, d) :
                               a \in 0..shift, b \in 1..shift,
                               c \in 0..shift, d \in 1..shift} \cup {FullWindow(data)}
  /\ pc = "grad_fn" => requires_grad /\ fwd = iter + 1 /\ gcalls = iter
  /\ pc \in {"update", "clamp"} =>
       requires_grad /\ fwd = iter + 1 /\ gcalls = iter + 1 /\ grad # NoTensor
  /\ pc \in {"loop", "done"} =>
       ~requires_grad /\ fwd = iter /\ gcalls = iter /\ grad = NoTensor

\* the second iteration has enabled tracking, taken a crop and is about to
\* run the forward pass
C18_Witness ==
  /\ do_random_shifts /\ pc = "forward" /\ iter = 1
  /\ requires_grad
  /\ x # FullWindow(data)

\* C19 as stated: with random shifting enabled the tensor that receives the
\* update shrinks in every iteration: after an iteration the working image
\* is smaller in height and width than the preprocessed image.
C19_WorkingImageShrinks ==
  (do_random_shifts /\ pc = "loop" /\ iter >= 1) =>
    data.h < processed_image.h /\ data.w < processed_image.w

\* C19 amended: the working image keeps the height and width of the
\* preprocessed image through every iteration. With random shifting enabled
\* only the forward pass runs on a crop, smaller by a randomly varying
\* amount; the gradient has the shape of the whole working image and is zero
\* outside the crop.
C19_WorkingImageKeepsShape ==
  /\ data.h = processed_image.h /\ data.w = processed_image.w
  /\ (do_random_shifts /\ pc \in {"forward", "grad_fn", "update", "clamp"}) =>
       /\ x.r1 - x.r0 + 1 < data.h
       /\ x.c1 - x.c0 + 1 < data.w
  /\ pc \in {"update", "clamp"} =>
       /\ grad.h = data.h /\ grad.w = data.w
       /\ \A p \in DOMAIN grad.v : ~InWindow(x, p) => grad.v[p] = Zero

\* two iterations with random shifts have updated the working image, which
\* still has the shape of the preprocessed image
C19_Witness ==
  /\ do_random_shifts /\ pc = "loop" /\ iter = 2
  /\ ~HasNaN(data)
  /\ data # processed_image
  /\ data.h = processed_image.h /\ data.w = processed_image.w

\* the gradient g multiplied by the constant k
Scaled(g, k) == Tensor(g.h, g.w, LAMBDA p : RMul(k, g.v[p]))

\* what one update adds to the image: data.grad * learning_rate / grad_mean
Addend(g, rate) == SgdStep(Tensor(g.h, g.w, LAMBDA p : Zero), g, rate)

\* positive constants an objective can be scaled by
Scales == {Rat(1, 2), Rat(3, 1)}

\* C20 as stated: whenever the gradient is nonzero the update before
\* clamping has mean absolute value over the whole image equal to
\* learning_rate.
C20_StepMeanIsRate ==
  (pc = "update" /\ AbsMean(grad) # Zero) =>
    AbsMean(Addend(grad, learning_rate)) = learning_rate

\* C20 amended: whenever the gradient is nonzero, multiplying it by a
\* positive constant gives the same update, and the update before clamping
\* has mean absolute value over the whole image equal to |learning_rate|
\* (dream accepts a negative learning_rate).
C20_ScaleInvariantStep ==
  (pc = "update" /\ AbsMean(grad) # Zero) =>
    /\ LET updated == SgdStep(data, grad, learning_rate)
       IN  \A k \in Scales : SgdStep(data, Scaled(grad, k), learning_rate) = updated
    /\ AbsMean(Addend(grad, learning_rate)) = RAbs(learning_rate)

\* an update with a nonzero gradient on a crop and a positive rate
C20_Witness ==
  /\ pc = "update" /\ do_random_shifts
  /\ AbsMean(grad) # Zero
  /\ RLess(Zero, learning_rate)
  /\ AbsMean(Addend(grad, learning_rate)) = learning_rate
  /\ SgdStep(data, grad, learning_rate) # data

\* a 1x1 tensor holding b[c] in channel c
PerChannel(b) == Tensor(1, 1, LAMBDA p : b[p[1]])

\* C21: unnormalize is the inverse of normalize: applied to the normalized
\* image it gives back the image tensor, and it maps the clamp bounds
\* -mean_c/std_c and (1-mean_c)/std_c to 0 and 1.
C21_UnnormalizeInverts ==
  (pc = "loop" /\ iter = 0) =>
    /\ unnormalize(normalize(ToTensor(Resize(img)))) = ToTensor(Resize(img))
    /\ unnormalize(processed_image) = ToTensor(Resize(img))
    /\ unnormalize(PerChannel(clamp_min)) = PerChannel([c \in Chans |-> Zero])
    /\ unnormalize(PerChannel(clamp_max)) = PerChannel([c \in Chans |-> One])

\* dream has preprocessed an image of several levels: the normalized image
\* differs from the image tensor and unnormalize gives the image tensor back
C21_Witness ==
  /\ pc = "loop" /\ iter = 0
  /\ \E p, q \in DOMAIN processed_image.v :
       p[1] = q[1] /\ processed_image.v[p] # processed_image.v[q]
  /\ processed_image # ToTensor(Resize(img))
  /\ unnormalize(processed_image) = ToTensor(Resize(img))

\* C22: the forward model returns exactly five feature tensors in stage
\* order (layer1, layer2, layer3, layer4, classification), and my_grad_fn2
\* injects at the last of them a seed over the 1000 classes that is 1 at
\* classes 153 and 281 and 0 at every other class.
C22_ClassSeed ==
  /\ gpc \in {"ready", "done", "done2"} =>
       /\ Len(output) = 5
       /\ output = <<"layer1", "layer2", "layer3", "layer4", "fc">>
  /\ gpc = "done2" =>
       /\ seed_stage = output[Len(output)] /\ seed_stage = "fc"
       /\ DOMAIN seed = 0..999
       /\ \A k \in DOMAIN seed : seed[k] = IF k = 153 \/ k = 281 THEN 1 ELSE 0

\* my_grad_fn2 has run on the output of a forward pass
C22_Witness ==
  /\ gpc = "done2" /\ Len(output) = 5
  /\ seed[153] = 1 /\ seed[281] = 1 /\ seed[0] = 0
  /\ seed_stage = "fc"

\* C23: with shifting disabled, learning_rate = 0.02, n_iter = 5 and a
\* constant-gray input, the objectives other than the all-zero stage have a
\* nonzero gradient on the image in every iteration, and with them the
\* image dream returns differs from the input image.
C23_GrayImageMoves ==
  /\ pc = "update" => (AbsMean(grad) # Zero <=> grad_fn # "zero_stage")
  /\ (pc = "done" /\ grad_fn # "zero_stage") =>
       /\ result # Untouched
       /\ result.h = Untouched.h /\ result.w = Untouched.w

\* five iterations on the gray image have run and the image has moved
C23_Witness ==
  /\ pc = "done" /\ iter = 5 /\ n_iter = 5 /\ ~do_random_shifts
  /\ learning_rate = Rat(2, 100)
  /\ grad_fn = "abs_sum"
  /\ result # Untouched

\* C24: no step of the validation phase of train_model changes the
\* model's parameters, the learning rate or the scheduler's count, and the
\* validation phase never reaches backward, optimizer.step or
\* scheduler.step.
C24_ValidationChangesNothing ==
  [][(Training /\ tpc # "epoch" /\ phase = "val") =>
       /\ weights' = weights
       /\ opt_lr' = opt_lr /\ last_epoch' = last_epoch
       /\ tpc' \notin {"backward", "opt_step", "sched_step"}]_vars

\* a validation batch of the second epoch has been processed after
\* training steps that changed the weights
C24_Witness ==
  /\ tpc = "stats" /\ phase = "val" /\ epoch = 1
  /\ weights # entry_wts
  /\ last_epoch = 2 * TrainBatches

\* the tensors of the optimizer that is training
Mine == {params[cur][1], params[cur][2]}

\* zero_grad has run before the forward pass and the backward pass before
\* optimizer.step: the .grad that optimizer.step reads is the gradient of
\* the current sample or batch alone
FreshGradients ==
  /\ opc \in {"forward", "backward"} => \A i \in Mine : ograd[i] = Zero
  /\ opc = "step" =>
       /\ ograd[params[cur][1]] = sgrad.w
       /\ ograd[params[cur][2]] = sgrad.b
  /\ tpc \in {"forward", "backward"} => \A p \in opt_params : pgrad[p] = 0
  /\ tpc = "opt_step" =>
       /\ phase = "train"
       /\ \A p \in opt_params : pgrad[p] = step_dir

\* C25 as stated: each parameter update uses the gradient of the current
\* sample only, never a sum over earlier ones: a step of either SGD
\* optimizer moves each of its parameters by -lr times the current gradient.
C25_UpdateFromCurrentGradientOnly ==
  [][(opc = "step" /\ cur \in {"sgd", "sgdmom"}) =>
       \A i \in Mine : heap'[i] = RSub(heap[i], RMul(OptLr(cur), ograd[i]))]_vars

\* C25 amended: in every training step zero_grad comes before the forward
\* pass and the backward pass before optimizer.step, so the .grad that
\* optimizer.step reads is the gradient of the current sample or batch
\* alone; the update is -lr times that gradient for plain SGD, while an
\* optimizer with momentum also folds in its buffer of earlier gradients.
C25_StepReadsCurrentGradient ==
  [][/\ FreshGradients /\ FreshGradients'
     /\ (opc = "step" /\ cur = "sgd") =>
          \A i \in Mine : heap'[i] = RSub(heap[i], RMul(OptLr(cur), ograd[i]))
     /\ (opc = "step" /\ cur = "sgdmom") =>
          \A i \in Mine :
            heap'[i] = RSub(heap[i], RMul(OptLr(cur), obuf'[i]))
                       /\ obuf'[i] = (IF steps = 0 THEN ograd[i]
                                      ELSE RAdd(RMul(momentum, obuf[i]), ograd[i]))]_vars

\* the second step of SGD with momentum has used the gradient of the
\* second sample and the buffer left by the first
C25_Witness ==
  /\ opc = "loop" /\ steps = 2 /\ cur = "sgdmom"
  /\ ograd[params[cur][1]] = sgrad.w
  /\ obuf[params[cur][1]] # ograd[params[cur][1]]

\* a batch of the current phase is being processed
InBatch == tpc \in {"forward", "backward", "opt_step", "sched_step", "stats"}

\* C26: train_model runs exactly num_epochs epochs, each a train phase over
\* all training batches followed by a val phase over all validation batches;
\* while a batch is processed the model is in training mode exactly when the
\* phase is 'train'; after a run of one epoch or more the model is left in
\* evaluation mode.
C26_EpochsAndModes ==
  /\ Training => epoch <= num_epochs /\ Len(log) = epoch
  /\ (InBatch \/ tpc = "batch") =>
       /\ epoch < num_epochs
       /\ training <=> (phase = "train")
       /\ batch <= NBatches(phase)
  /\ (InBatch /\ phase = "train") =>
       last_epoch = epoch * TrainBatches + batch + (IF tpc = "stats" THEN 1 ELSE 0)
  /\ ((InBatch \/ tpc = "batch") /\ phase = "val") =>
       last_epoch = (epoch + 1) * TrainBatches
  /\ tpc = "returned" =>
       /\ epoch = num_epochs /\ Len(log) = num_epochs
       /\ last_epoch = num_epochs * TrainBatches
       /\ num_epochs >= 1 => ~training

\* a run of two epochs has returned with the model in evaluation mode
C26_Witness ==
  /\ tpc = "returned" /\ num_epochs = 2 /\ epoch = 2
  /\ Len(log) = 2 /\ last_epoch = 2 * TrainBatches
  /\ ~training

\* C27: if num_epochs = 0, or if every epoch's validation accuracy is 0,
\* train_model returns the model with exactly the weights it had on entry.
C27_NothingLearned ==
  (tpc = "returned" /\ ~SomeValAccPositive(log)) =>
    /\ weights = entry_wts
    /\ best_acc = Zero

\* two epochs have trained the model, no validation prediction was right,
\* and the returned weights are those of the entry
C27_Witness ==
  /\ tpc = "returned" /\ num_epochs = 2
  /\ \A j \in 1..Len(log) : log[j].acc = Zero
  /\ log[2].wts # entry_wts
  /\ weights = entry_wts

\* the call of visualize_model is over: it returned or it raised
VizOver == vpc \in {"returned", "raised"}

\* C28: visualize_model leaves the model's training mode as it found it, for
\* every num_images >= 1 and every validation set: once the call is over
\* model.training equals model.training at entry, and at most num_images
\* images were displayed.
C28_ModeRestored ==
  /\ VizOver => model_training = was_training
  /\ vpc # "off" => shown <= num_images

\* the elements of the last row and the last column of t
Border(t) == {p \in DOMAIN t.v : p[2] = t.h \/ p[3] = t.w}

\* C29: with random shifting enabled random_shift always drops at least one
\* trailing row and one trailing column, so the last row and the last column
\* of the working image are never part of a forward pass, receive zero
\* gradient, and after any number of iterations still hold their initial
\* normalized values.
C29_BorderUntouched ==
  do_random_shifts =>
    /\ pc \in {"forward", "grad_fn", "update", "clamp"} =>
         x.r1 < data.h /\ x.c1 < data.w
    /\ pc \in {"update", "clamp"} =>
         \A p \in Border(grad) : grad.v[p] = Zero
    /\ (pc \in {"loop", "done"} /\ iter >= 1) =>
         \A p \in Border(data) : data.v[p] = img_transform(img).v[p]

\* C30: dream never modifies the image the caller passed in: no step from the
\* call to the return changes img, whatever n_iter, and every call starts
\* from img_transform(img), so a second call on the same img starts from the
\* same preprocessed image as the first.
C30_CallerImageKept ==
  [][/\ (pc # "idle" \/ pc' # "idle") => img' = img
     /\ (pc = "idle" /\ pc' = "loop") =>
          /\ data' = img_transform(img)
          /\ processed_image' = data']_vars

\* a second call on the image of an earlier call that changed its working
\* image is about to start its loop
C30_Witness ==
  /\ pc = "loop" /\ iter = 0
  /\ ref.set /\ ref.img = img /\ ref.n_iter >= 1
  /\ ref.result # FinalImage(img_transform(img))
  /\ data = img_transform(img)

====
